---- MODULE Spec2Model ----
(***************************************************************************)
(* Model of x-pack/agent/pkg/agent/application/fleet_gateway.go: the fleet *)
(* gateway's worker loop, execute(), Start() and Stop(), together with the *)
(* collaborators it drives through interfaces (reporter, scheduler,        *)
(* check-in client, dispatcher).                                           *)
(***************************************************************************)
EXTENDS Integers, Sequences, FiniteSets, TLC

\* ---- bounds ----
MaxWorkers == 2   \* number of Start() calls the model follows
MaxEvents  == 2   \* number of events the reporter's producers add
MaxActions == 2   \* longest action list of a check-in response
MaxFails   == 2   \* consecutive failures counted per worker (saturating)
MaxDuration == 3  \* largest settings.Duration, in time units
MaxJitter   == 2  \* largest settings.Jitter, in time units

Workers     == 1..MaxWorkers
EventIds    == 1..MaxEvents
\* Actions are opaque to the gateway: a response of n actions is named by the
\* arrival positions of its actions, <<1, ..., n>>.
Responses   == {[i \in 1..n |-> i] : n \in 0..MaxActions}

Range(s) == {s[i] : i \in DOMAIN s}
Min(a, b) == IF a < b THEN a ELSE b

VARIABLES
  pending,      \* reporter: queue of not yet acknowledged events
  nextEvent,    \* reporter: id of the next event a producer adds
  tick,         \* scheduler: the tick slot holds an unconsumed tick
  schedStopped, \* scheduler: Stop() was called on it
  done,         \* f.done is closed
  stopPc,       \* position of the caller of Stop(): "idle" or "sched"
  panicked,     \* the process died in a panic (close of a closed channel)
  pc,           \* per worker goroutine: position in worker()/execute()
  ee,           \* per worker: snapshot returned by reporter.Events()
  snapNext,     \* per worker: id of the first event added after that snapshot
  req,          \* per worker: Events field of the request in flight
  resp,         \* per worker: resp.Actions of the check-in response
  err,          \* per worker: outcome of cmd.Execute: "none", "ok", "err"
  nAck,         \* per worker: calls of ack() in the current execute()
  nDispatch,    \* per worker: calls of Dispatch in the current cycle
  dispatched,   \* per worker: argument of the last Dispatch call
  dispErr,      \* per worker: the last Dispatch call returned an error
  fails,        \* per worker: consecutive failed execute() calls
  delivered,    \* events contained in a request whose round-trip succeeded
  ackCount,     \* per event: invoked acknowledgments whose snapshot holds it
  failedSnap,   \* snapshot of a failed execute() not yet followed by Events()
  nStart,       \* calls of Start() so far
  tickCredit,   \* ticks put into the slot minus ticks taken by a worker
  nEvents,      \* per worker: calls of reporter.Events() in the current execute()
  nAttempts,    \* per worker: round-trips begun in the current execute()
  settings,     \* the fleetGatewaySettings of the constructor
  scheduler,    \* the arguments scheduler.NewPeriodicJitter was built with
  lastDelays    \* scheduler: the last two inter-tick delays, newest first

workerVars == <<pc, ee, snapNext, req, resp, err, nAck, nDispatch, dispatched, dispErr, fails>>
histVars   == <<delivered, ackCount, failedSnap>>
cntVars    == <<nStart, tickCredit, nEvents, nAttempts>>
cfgVars    == <<settings, scheduler, lastDelays>>
vars == <<pending, nextEvent, tick, schedStopped, done, stopPc, panicked,
          workerVars, histVars, cntVars, cfgVars>>

\* ---- reporter (fleetReporter interface) ----

\* Events(): a point-in-time copy of the pending queue
Events == pending

\* the ack function returned with snapshot snap: drops exactly its events
ack(snap) == SelectSeq(pending, LAMBDA e : e \notin Range(snap))

\* a producer adds one event to the reporter's queue
AddEvent ==
  /\ ~panicked
  /\ nextEvent <= MaxEvents
  /\ pending' = Append(pending, nextEvent)
  /\ nextEvent' = nextEvent + 1
  /\ UNCHANGED <<tick, schedStopped, done, stopPc, panicked, workerVars, histVars>>
  /\ UNCHANGED <<cntVars, cfgVars>>

\* ---- scheduler (scheduler.Scheduler interface) ----

\* the scheduler's timer fires: the single slot is filled, or the tick dropped
SchedulerTick ==
  /\ ~panicked
  /\ ~schedStopped
  /\ tick' = TRUE
  /\ UNCHANGED <<pending, nextEvent, schedStopped, done, stopPc, panicked,
                 workerVars, histVars>>
  /\ tickCredit' = IF tick THEN tickCredit ELSE tickCredit + 1
  /\ UNCHANGED <<nStart, nEvents, nAttempts, cfgVars>>

\* ---- gateway ----

\* the configurations the constructor is given
Settings == [Duration : 1..MaxDuration, Jitter : 0..MaxJitter]

\* newFleetGateway with a fault: the two durations are passed in the wrong order
newFleetGatewaySwapped(s) == [d |-> s.Jitter, variance |-> s.Duration]

\* newFleetGateway: scheduler.NewPeriodicJitter(settings.Duration, settings.Jitter)
newFleetGateway(s) == [d |-> s.Duration, variance |-> s.Jitter]

\* the fields of the gateway and the state of its collaborators after
\* construction, with the worker goroutines at positions p
Constructed(s, p) ==
  /\ pending = <<>>
  /\ nextEvent = 1
  /\ tick = FALSE
  /\ schedStopped = FALSE
  /\ done = FALSE
  /\ stopPc = "idle"
  /\ panicked = FALSE
  /\ pc = p
  /\ ee = [w \in Workers |-> <<>>]
  /\ snapNext = [w \in Workers |-> 0]
  /\ req = [w \in Workers |-> <<>>]
  /\ resp = [w \in Workers |-> <<>>]
  /\ err = [w \in Workers |-> "none"]
  /\ nAck = [w \in Workers |-> 0]
  /\ nDispatch = [w \in Workers |-> 0]
  /\ dispatched = [w \in Workers |-> <<>>]
  /\ dispErr = [w \in Workers |-> FALSE]
  /\ fails = [w \in Workers |-> 0]
  /\ delivered = {}
  /\ ackCount = [e \in EventIds |-> 0]
  /\ failedSnap = {}
  /\ nStart = 0
  /\ tickCredit = 0
  /\ nEvents = [w \in Workers |-> 0]
  /\ nAttempts = [w \in Workers |-> 0]
  /\ settings = s
  /\ scheduler = newFleetGateway(s)
  /\ lastDelays = <<>>

\* newFleetGatewayWithScheduler with a fault: the constructor starts a worker
newFleetGatewayStartsWorker(s) ==
  Constructed(s, [w \in Workers |-> IF w = 1 THEN "select" ELSE "none"])

\* newFleetGatewayWithScheduler: done is open, no worker runs
newFleetGatewayWithScheduler(s) ==
  Constructed(s, [w \in Workers |-> "none"])

\* the state after construction; the untimed steps below do not read the
\* settings, so one configuration stands for all of them
Init == newFleetGatewayWithScheduler([Duration |-> MaxDuration, Jitter |-> MaxJitter])

\* Start(): go f.worker()
Start ==
  /\ ~panicked
  /\ \E w \in Workers :
       /\ pc[w] = "none"
       /\ \A v \in Workers : v < w => pc[v] # "none"
       /\ pc' = [pc EXCEPT ![w] = "select"]
  /\ UNCHANGED <<pending, nextEvent, tick, schedStopped, done, stopPc, panicked,
                 ee, snapNext, req, resp, err, nAck, nDispatch, dispatched, dispErr, fails,
                 histVars>>
  /\ nStart' = nStart + 1
  /\ UNCHANGED <<tickCredit, nEvents, nAttempts, cfgVars>>

\* Stop(), first statement: close(f.done); closing a closed channel panics
StopClose ==
  /\ ~panicked
  /\ stopPc = "idle"
  /\ IF done
       THEN panicked' = TRUE /\ UNCHANGED <<done, stopPc>>
       ELSE done' = TRUE /\ stopPc' = "sched" /\ UNCHANGED panicked
  /\ UNCHANGED <<pending, nextEvent, tick, schedStopped, workerVars, histVars>>
  /\ UNCHANGED <<cntVars, cfgVars>>

\* Stop(), second statement: f.scheduler.Stop()
StopScheduler ==
  /\ ~panicked
  /\ stopPc = "sched"
  /\ schedStopped' = TRUE
  /\ stopPc' = "idle"
  /\ UNCHANGED <<pending, nextEvent, tick, done, panicked, workerVars, histVars>>
  /\ UNCHANGED <<cntVars, cfgVars>>

\* WorkerTick with a fault: the receive leaves the tick in the slot
WorkerTickKeepsTick(w) ==
  /\ ~panicked
  /\ pc[w] = "select"
  /\ tick
  /\ tick' = tick
  /\ ee' = [ee EXCEPT ![w] = Events]
  /\ snapNext' = [snapNext EXCEPT ![w] = nextEvent]
  /\ pc' = [pc EXCEPT ![w] = "checkin"]
  /\ failedSnap' = {}
  /\ UNCHANGED <<pending, nextEvent, schedStopped, done, stopPc, panicked,
                 req, resp, err, nAck, nDispatch, dispatched, dispErr, fails,
                 delivered, ackCount>>
  /\ tickCredit' = tickCredit - 1
  /\ nEvents' = [nEvents EXCEPT ![w] = nEvents[w] + 1]
  /\ UNCHANGED <<nStart, nAttempts, cfgVars>>

\* worker(): case <-f.scheduler.WaitTick(), then execute() up to
\* ee, ack := f.reporter.Events()
WorkerTick(w) ==
  /\ ~panicked
  /\ pc[w] = "select"
  /\ tick
  /\ tick' = FALSE
  /\ ee' = [ee EXCEPT ![w] = Events]
  /\ snapNext' = [snapNext EXCEPT ![w] = nextEvent]
  /\ pc' = [pc EXCEPT ![w] = "checkin"]
  /\ failedSnap' = {}
  /\ UNCHANGED <<pending, nextEvent, schedStopped, done, stopPc, panicked,
                 req, resp, err, nAck, nDispatch, dispatched, dispErr, fails,
                 delivered, ackCount>>
  /\ tickCredit' = tickCredit - 1
  /\ nEvents' = [nEvents EXCEPT ![w] = nEvents[w] + 1]
  /\ UNCHANGED <<nStart, nAttempts, cfgVars>>

\* WorkerDone with a fault: the done case does not leave the loop
WorkerDoneContinue(w) ==
  /\ ~panicked
  /\ pc[w] = "select"
  /\ done
  /\ UNCHANGED vars

\* worker(): case <-f.done: return
WorkerDone(w) ==
  /\ ~panicked
  /\ pc[w] = "select"
  /\ done
  /\ pc' = [pc EXCEPT ![w] = "exited"]
  /\ UNCHANGED <<pending, nextEvent, tick, schedStopped, done, stopPc, panicked,
                 ee, snapNext, req, resp, err, nAck, nDispatch, dispatched, dispErr, fails,
                 histVars>>
  /\ UNCHANGED <<cntVars, cfgVars>>

\* CheckinSend with a fault: the events are acknowledged when the request is sent
CheckinSendAcking(w) ==
  /\ ~panicked
  /\ pc[w] = "checkin"
  /\ req' = [req EXCEPT ![w] = ee[w]]
  /\ pc' = [pc EXCEPT ![w] = "inflight"]
  /\ pending' = ack(ee[w])
  /\ nAck' = [nAck EXCEPT ![w] = nAck[w] + 1]
  /\ UNCHANGED <<nextEvent, tick, schedStopped, done, stopPc, panicked,
                 ee, snapNext, resp, err, nDispatch, dispatched, dispErr, fails,
                 histVars>>
  /\ nAttempts' = [nAttempts EXCEPT ![w] = nAttempts[w] + 1]
  /\ UNCHANGED <<nStart, tickCredit, nEvents, cfgVars>>

\* execute(): req := &CheckinRequest{Events: ee}; cmd.Execute(req) is entered
CheckinSend(w) ==
  /\ ~panicked
  /\ pc[w] = "checkin"
  /\ req' = [req EXCEPT ![w] = ee[w]]
  /\ pc' = [pc EXCEPT ![w] = "inflight"]
  /\ UNCHANGED <<pending, nextEvent, tick, schedStopped, done, stopPc, panicked,
                 ee, snapNext, resp, err, nAck, nDispatch, dispatched, dispErr, fails,
                 histVars>>
  /\ nAttempts' = [nAttempts EXCEPT ![w] = nAttempts[w] + 1]
  /\ UNCHANGED <<nStart, tickCredit, nEvents, cfgVars>>

\* RoundTripOk with a fault: a successful round-trip is returned as an error
RoundTripOkAsError(w) ==
  /\ ~panicked
  /\ pc[w] = "inflight"
  /\ err' = [err EXCEPT ![w] = "err"]
  /\ pc' = [pc EXCEPT ![w] = "logerr"]
  /\ fails' = [fails EXCEPT ![w] = Min(fails[w] + 1, MaxFails)]
  /\ failedSnap' = Range(ee[w])
  /\ UNCHANGED <<pending, nextEvent, tick, schedStopped, done, stopPc, panicked,
                 ee, snapNext, req, resp, nAck, nDispatch, dispatched, dispErr,
                 delivered, ackCount>>
  /\ UNCHANGED <<cntVars, cfgVars>>

\* execute(): cmd.Execute(req) returns (resp, nil)
RoundTripOk(w) ==
  /\ ~panicked
  /\ pc[w] = "inflight"
  /\ \E r \in Responses : resp' = [resp EXCEPT ![w] = r]
  /\ err' = [err EXCEPT ![w] = "ok"]
  /\ pc' = [pc EXCEPT ![w] = "ack"]
  /\ delivered' = delivered \cup Range(req[w])
  /\ UNCHANGED <<pending, nextEvent, tick, schedStopped, done, stopPc, panicked,
                 ee, snapNext, req, nAck, nDispatch, dispatched, dispErr, fails,
                 ackCount, failedSnap>>
  /\ UNCHANGED <<cntVars, cfgVars>>

\* RoundTripFail with a fault: the round-trip is tried again inside execute()
RoundTripFailRetry(w) ==
  /\ ~panicked
  /\ pc[w] = "inflight"
  /\ err' = [err EXCEPT ![w] = "err"]
  /\ pc' = [pc EXCEPT ![w] = "checkin"]
  /\ fails' = [fails EXCEPT ![w] = Min(fails[w] + 1, MaxFails)]
  /\ failedSnap' = Range(ee[w])
  /\ UNCHANGED <<pending, nextEvent, tick, schedStopped, done, stopPc, panicked,
                 ee, snapNext, req, resp, nAck, nDispatch, dispatched, dispErr,
                 delivered, ackCount>>
  /\ UNCHANGED <<cntVars, cfgVars>>

\* RoundTripFail with a fault: ack() is called on the error path too
RoundTripFailAcking(w) ==
  /\ ~panicked
  /\ pc[w] = "inflight"
  /\ err' = [err EXCEPT ![w] = "err"]
  /\ pc' = [pc EXCEPT ![w] = "logerr"]
  /\ fails' = [fails EXCEPT ![w] = Min(fails[w] + 1, MaxFails)]
  /\ failedSnap' = Range(ee[w])
  /\ pending' = ack(ee[w])
  /\ UNCHANGED <<nextEvent, tick, schedStopped, done, stopPc, panicked,
                 ee, snapNext, req, resp, nAck, nDispatch, dispatched, dispErr,
                 delivered, ackCount>>
  /\ UNCHANGED <<cntVars, cfgVars>>

\* execute(): cmd.Execute(req) returns an error; return nil, err
RoundTripFail(w) ==
  /\ ~panicked
  /\ pc[w] = "inflight"
  /\ err' = [err EXCEPT ![w] = "err"]
  /\ pc' = [pc EXCEPT ![w] = "logerr"]
  /\ fails' = [fails EXCEPT ![w] = Min(fails[w] + 1, MaxFails)]
  /\ failedSnap' = Range(ee[w])
  /\ UNCHANGED <<pending, nextEvent, tick, schedStopped, done, stopPc, panicked,
                 ee, snapNext, req, resp, nAck, nDispatch, dispatched, dispErr,
                 delivered, ackCount>>
  /\ UNCHANGED <<cntVars, cfgVars>>

\* execute(): ack(); return resp, nil
Ack(w) ==
  /\ ~panicked
  /\ pc[w] = "ack"
  /\ pending' = ack(ee[w])
  /\ nAck' = [nAck EXCEPT ![w] = nAck[w] + 1]
  /\ ackCount' = [e \in EventIds |->
                    IF e \in Range(ee[w]) THEN ackCount[e] + 1 ELSE ackCount[e]]
  /\ fails' = [fails EXCEPT ![w] = 0]
  /\ pc' = [pc EXCEPT ![w] = "dispatch"]
  /\ UNCHANGED <<nextEvent, tick, schedStopped, done, stopPc, panicked,
                 ee, snapNext, req, resp, err, nDispatch, dispatched, dispErr,
                 delivered, failedSnap>>
  /\ UNCHANGED <<cntVars, cfgVars>>

\* Convert with a fault: the batch is filled back to front
ConvertReversed(r) == [idx \in 1..Len(r) |-> r[Len(r) + 1 - idx]]

\* worker(): actions[idx] = a for idx, a := range resp.Actions
Convert(r) == [idx \in 1..Len(r) |-> r[idx]]

\* worker(): f.dispatcher.Dispatch(actions...), its error is logged
Dispatch(w) ==
  /\ ~panicked
  /\ pc[w] = "dispatch"
  /\ dispatched' = [dispatched EXCEPT ![w] = Convert(resp[w])]
  /\ nDispatch' = [nDispatch EXCEPT ![w] = nDispatch[w] + 1]
  /\ \E e \in BOOLEAN : dispErr' = [dispErr EXCEPT ![w] = e]
  /\ pc' = [pc EXCEPT ![w] = "sleeping"]
  /\ UNCHANGED <<pending, nextEvent, tick, schedStopped, done, stopPc, panicked,
                 ee, snapNext, req, resp, err, nAck, fails, histVars>>
  /\ UNCHANGED <<cntVars, cfgVars>>

\* the per-cycle locals go out of scope when the loop iterates
EndCycle(w) ==
  /\ pc' = [pc EXCEPT ![w] = "select"]
  /\ ee' = [ee EXCEPT ![w] = <<>>]
  /\ snapNext' = [snapNext EXCEPT ![w] = 0]
  /\ req' = [req EXCEPT ![w] = <<>>]
  /\ resp' = [resp EXCEPT ![w] = <<>>]
  /\ err' = [err EXCEPT ![w] = "none"]
  /\ nAck' = [nAck EXCEPT ![w] = 0]
  /\ nDispatch' = [nDispatch EXCEPT ![w] = 0]
  /\ dispatched' = [dispatched EXCEPT ![w] = <<>>]
  /\ dispErr' = [dispErr EXCEPT ![w] = FALSE]
  /\ UNCHANGED <<pending, nextEvent, tick, schedStopped, done, stopPc, panicked,
                 fails, histVars>>
  /\ nEvents' = [nEvents EXCEPT ![w] = 0]
  /\ nAttempts' = [nAttempts EXCEPT ![w] = 0]
  /\ UNCHANGED <<nStart, tickCredit, cfgVars>>

\* LogErr with a fault: the loop returns on a failed check-in
LogErrReturn(w) ==
  /\ ~panicked
  /\ pc[w] = "logerr"
  /\ pc' = [pc EXCEPT ![w] = "exited"]
  /\ UNCHANGED <<pending, nextEvent, tick, schedStopped, done, stopPc, panicked,
                 ee, snapNext, req, resp, err, nAck, nDispatch, dispatched,
                 dispErr, fails, histVars>>
  /\ UNCHANGED <<cntVars, cfgVars>>

\* worker(): if err != nil { f.log.Error(err); continue }
LogErr(w) ==
  /\ ~panicked
  /\ pc[w] = "logerr"
  /\ EndCycle(w)

\* worker(): f.log.Debug("FleetGateway sleeping"), back to the select
Sleeping(w) ==
  /\ ~panicked
  /\ pc[w] = "sleeping"
  /\ EndCycle(w)

\* one step of the goroutine running worker()
worker(w) ==
  \/ WorkerTick(w)
  \/ WorkerDone(w)
  \/ CheckinSend(w)
  \/ RoundTripOk(w)
  \/ RoundTripFail(w)
  \/ Ack(w)
  \/ Dispatch(w)
  \/ LogErr(w)
  \/ Sleeping(w)

Next ==
  \/ AddEvent
  \/ SchedulerTick
  \/ Start
  \/ StopClose
  \/ StopScheduler
  \/ \E w \in Workers : worker(w)

Spec == Init /\ [][Next]_vars

\* fair scheduling of the goroutines; a call of Stop() runs to its end and the
\* check-in client returns
LiveSpec ==
  /\ Spec
  /\ WF_vars(StopScheduler)
  /\ \A w \in Workers : WF_vars(worker(w))

\* LiveSpec, and the scheduler keeps delivering ticks while it is not stopped,
\* and the round-trips of a worker do not fail forever
FairSpec ==
  /\ LiveSpec
  /\ WF_vars(SchedulerTick)
  /\ \A w \in Workers : SF_vars(RoundTripOk(w))

\* ---- the scheduler's timing ----

\* the scheduler's timer fires after a delay of the base interval plus an
\* offset of at most the jitter magnitude in either direction
TimedTick ==
  /\ ~panicked
  /\ ~schedStopped
  /\ \E off \in (0 - scheduler.variance)..scheduler.variance :
       lastDelays' = <<scheduler.d + off>> \o
                       (IF lastDelays = <<>> THEN <<>> ELSE <<lastDelays[1]>>)
  /\ tick' = TRUE
  /\ tickCredit' = IF tick THEN tickCredit ELSE tickCredit + 1
  /\ UNCHANGED <<pending, nextEvent, schedStopped, done, stopPc, panicked,
                 workerVars, histVars, nStart, nEvents, nAttempts,
                 settings, scheduler>>

\* the constructor is given any of the configurations
JitterInit == \E s \in Settings : newFleetGatewayWithScheduler(s)

JitterNext == TimedTick

\* the scheduler of a gateway built by newFleetGateway, with its delays
JitterSpec == JitterInit /\ [][JitterNext]_vars

\* ---- properties ----

\* events a producer added that are no longer in the pending queue
Removed == (1..(nextEvent - 1)) \ Range(pending)

\* workers inside execute() or the Dispatch call that follows it
InCycle == {w \in Workers : pc[w] \in {"checkin", "inflight", "ack", "dispatch"}}

\* C1: in every execute() call ack() is invoked at most once, never before the
\* round-trip has returned (not before it starts, not while it is in flight),
\* and, once execute() has returned, it was invoked iff the round-trip of that
\* call returned success.
C1_AckIffSuccess ==
  \A w \in Workers :
    /\ nAck[w] <= 1
    /\ pc[w] \in {"checkin", "inflight", "ack"} => nAck[w] = 0
    /\ nAck[w] = 1 => err[w] = "ok"
    /\ pc[w] \in {"dispatch", "sleeping"} => err[w] = "ok" /\ nAck[w] = 1
    /\ pc[w] = "logerr" => err[w] = "err" /\ nAck[w] = 0

\* C1 witness: an execute() has returned after a successful round-trip that
\* carried events, and its ack() ran once
C1_Witness ==
  \E w \in Workers :
    pc[w] = "dispatch" /\ err[w] = "ok" /\ nAck[w] = 1 /\ ee[w] # <<>>

\* C2: a failed round-trip makes execute() return the error and leaves the
\* pending queue as it was, and the snapshot of the next Events() call holds
\* every event of the failed snapshot.
C2_FailedSnapshotResubmitted ==
  [][\A w \in Workers :
       /\ RoundTripFail(w) => pending' = pending /\ err'[w] = "err"
       /\ WorkerTick(w) => failedSnap \subseteq Range(ee'[w])]_vars

\* C3: no event is in the snapshot of more than one invoked acknowledgment.
C3_NoDuplicateAck == \A e \in EventIds : ackCount[e] <= 1

\* C4: every event removed from the pending queue was contained in the request
\* of a round-trip that returned success; the state in which the process died
\* between the round-trip's success and ack() is one of the states covered.
C4_NoEventLoss == Removed \subseteq delivered

\* C4 witness: the process died between a successful round-trip and ack();
\* the events of that request are still pending, an earlier event is removed
C4_Witness ==
  /\ panicked
  /\ Removed # {}
  /\ \E w \in Workers :
       pc[w] = "ack" /\ ee[w] # <<>> /\ Range(ee[w]) \subseteq Range(pending)

\* C5: when execute() returns after ack(), none of the snapshotted events is
\* pending and every event added after the snapshot was taken is pending.
C5_AckRemovesExactlySnapshot ==
  [][\A w \in Workers :
       Ack(w) => /\ Range(ee[w]) \cap Range(pending') = {}
                 /\ \A e \in snapNext[w]..(nextEvent - 1) : e \in Range(pending')]_vars

\* C6: Dispatch is called exactly once in a cycle whose execute() succeeded,
\* with the actions of that cycle's response in response order (an empty
\* response gives an empty batch), and not at all in a cycle whose execute()
\* returned an error.
C6_DispatchOncePerSuccess ==
  \A w \in Workers :
    /\ nDispatch[w] <= 1
    /\ pc[w] = "sleeping" => /\ err[w] = "ok"
                             /\ nDispatch[w] = 1
                             /\ dispatched[w] = resp[w]
    /\ pc[w] \in {"checkin", "inflight", "ack", "dispatch", "logerr"} => nDispatch[w] = 0

\* C6 witness: a cycle has ended with one Dispatch call of a batch of several
\* actions
C6_Witness ==
  \E w \in Workers :
    pc[w] = "sleeping" /\ nDispatch[w] = 1 /\ Len(dispatched[w]) = MaxActions

\* C7: a failed check-in does not end the loop: the worker leaves the loop only
\* when done is closed, and after any number of consecutive failures a worker
\* waiting in the select takes the next tick and runs execute() again.
C7_FailureKeepsLoop ==
  \A w \in Workers :
    /\ pc[w] = "exited" => done
    /\ fails[w] > 0 =>
         pc[w] \in {"logerr", "select", "checkin", "inflight", "ack", "exited"}
    /\ (fails[w] > 0 /\ pc[w] = "select" /\ tick /\ ~panicked) => ENABLED WorkerTick(w)

\* C7 witness: after MaxFails consecutive failures, with no stop signalled, the
\* worker is inside execute() again
C7_Witness ==
  \E w \in Workers : fails[w] = MaxFails /\ pc[w] = "checkin" /\ ~done

\* C8: after Dispatch returned an error the events acknowledged in that cycle
\* are not pending, no later check-in request carries them, and the worker
\* goes back to the select.
C8_DispatchErrorKeepsAck ==
  [][\A w \in Workers :
       (pc[w] = "sleeping" /\ dispErr[w]) =>
          /\ Range(ee[w]) \cap Range(pending) = {}
          /\ \A v \in Workers :
               CheckinSend(v) => Range(req'[v]) \cap Range(ee[w]) = {}
          /\ Sleeping(w) => pc'[w] = "select"]_vars

\* C9: at most one round-trip is in flight, and no execute() starts before the
\* previous execute() and its Dispatch call have completed.
C9_OneCycleAtATime ==
  /\ Cardinality({w \in Workers : pc[w] = "inflight"}) <= 1
  /\ Cardinality(InCycle) <= 1

\* C10: once done is closed on a started gateway, eventually every started
\* worker has left the loop (it has returned, or the process is dead), whether
\* or not a tick arrives; done stays closed, so this is asked again of every
\* worker started later.
C10_StopTerminates ==
  (done /\ \E w \in Workers : pc[w] # "none")
    ~> (panicked \/ \A w \in Workers : pc[w] \in {"none", "exited"})

\* C10 witness: a worker has returned after a completed Stop() with no tick in
\* the slot and without a check-in having been answered
C10_Witness ==
  \E w \in Workers :
    /\ pc[w] = "exited" /\ done /\ schedStopped /\ ~panicked
    /\ ~tick /\ delivered = {} /\ failedSnap = {}

\* positions of a worker that has been started
StartedPcs == {"select", "checkin", "inflight", "ack", "dispatch", "logerr",
               "sleeping", "exited"}

\* the first call of Stop() has returned
StopReturned == done /\ schedStopped /\ stopPc = "idle"

\* C11: in every state of a started worker, a call of Stop() can run to its
\* end by its own steps alone: close(f.done) completes without fault and
\* f.scheduler.Stop() follows.
C11_StopNeverBlocks ==
  \A w \in Workers :
    pc[w] \in StartedPcs =>
      /\ (~panicked /\ stopPc = "idle") => ENABLED (StopClose /\ ~panicked')
      /\ (~panicked /\ stopPc = "sched") => ENABLED StopScheduler

\* C12: calling Stop() again on a stopped gateway completes without a panic.
C12_StopIdempotent == ~panicked

\* C13: once Stop() has returned, no worker starts a new execute().
C13_NoCycleAfterStopReturned ==
  [][\A w \in Workers : StopReturned => ~WorkerTick(w)]_vars

\* C14: every call of Start() begins one worker goroutine and can return in
\* any state, whether or not a tick is there; while Start() has not been
\* called, no worker exists and there is no Events() call, no round-trip and
\* no Dispatch.
C14_StartSpawnsWorker ==
  /\ Cardinality({w \in Workers : pc[w] # "none"}) = nStart
  /\ (~panicked /\ nStart < MaxWorkers) => ENABLED Start
  /\ nStart = 0 =>
       /\ \A w \in Workers : nEvents[w] = 0 /\ nAttempts[w] = 0 /\ nDispatch[w] = 0
       /\ delivered = {} /\ failedSnap = {} /\ Removed = {}

\* C14 witness: Start() has returned, its worker waits in the select, no tick
\* is in the slot and no check-in has been answered
C14_Witness ==
  /\ nStart = 1 /\ pc[1] = "select" /\ ~tick
  /\ delivered = {} /\ failedSnap = {}

\* C15: the tick slot holds at most one unconsumed tick, a tick fired while the
\* slot is full is dropped, and every execute() takes exactly one tick out of
\* the slot, so no more execute() calls have started than ticks were put in.
C15_TicksNotStockpiled ==
  /\ tickCredit = (IF tick THEN 1 ELSE 0)
  /\ \A w \in Workers : nEvents[w] <= 1

\* C15 witness: a tick waits in the slot while a check-in is in flight
C15_Witness ==
  \E w \in Workers : pc[w] = "inflight" /\ tick /\ tickCredit = 1

\* every recorded delay lies in [Duration - Jitter, Duration + Jitter]
DelaysInBound ==
  \A i \in DOMAIN lastDelays :
    /\ settings.Duration - settings.Jitter <= lastDelays[i]
    /\ lastDelays[i] <= settings.Duration + settings.Jitter

\* the next delay can differ from the last one
DelaysNotForced ==
  lastDelays # <<>> => ENABLED (TimedTick /\ lastDelays'[1] # lastDelays[1])

C17_OneSnapshotOneAttempt ==
  \A w \in Workers :
    /\ nEvents[w] <= 1
    /\ nAttempts[w] <= 1
    /\ pc[w] = "checkin" => nEvents[w] = 1 /\ nAttempts[w] = 0
    /\ pc[w] \in {"inflight", "ack", "dispatch", "logerr", "sleeping"} =>
         nEvents[w] = 1 /\ nAttempts[w] = 1 /\ req[w] = ee[w]

\* C17 witness: an execute() has returned an error after one attempt whose
\* request carried several events
C17_Witness ==
  \E w \in Workers :
    pc[w] = "logerr" /\ nAttempts[w] = 1 /\ Len(req[w]) = MaxEvents

\* C18: a cycle that is in progress when Stop() is called runs on: the worker
\* can take the next step of its cycle.
C18_StopDoesNotCancel ==
  \A w \in Workers : (done /\ w \in InCycle) => ENABLED worker(w)

\* C19: on a started gateway every pending event is eventually contained in
\* the request of a successful round-trip and removed from the queue, unless
\* the gateway is stopped.
C19_EventuallyAcknowledged ==
  \A e \in EventIds :
    ((\E w \in Workers : pc[w] # "none") /\ e \in Range(pending))
      ~> (done \/ (e \in delivered /\ e \notin Range(pending)))

\* C19 witness: on a started gateway that is not stopped, every event has
\* been delivered in a successful check-in and removed from the queue
C19_Witness ==
  /\ ~done
  /\ \E w \in Workers : pc[w] # "none"
  /\ Removed = EventIds
  /\ delivered = EventIds

\* C20: once Stop() has been called, no worker starts an execute(), also a
\* worker started after the Stop().
C20_NoCycleAfterStop ==
  [][\A w \in Workers : done => ~WorkerTick(w)]_vars

====
